---- MODULE Spec2Model ----
(***************************************************************************)
(* Session manager of the authentication layer (docs/auth2.md): the Redux  *)
(* auth slice, its five async thunks (signIn, signUp, signOut,             *)
(* refreshSession, checkAuth), the provider registry and the secure        *)
(* storage service.  Every await of a thunk is a point where another       *)
(* thunk may run; a thunk is one task, and its position is tasks[t].pc.    *)
(***************************************************************************)
EXTENDS Naturals, Sequences, FiniteSets, TLC

(* ---------------- bounds of the model ---------------- *)
\* total number of top-level dispatches (and process restarts) in one run
MaxOps == 2
\* total number of storage calls that fail in one run
MaxFaults == 1

(* ---------------- values ---------------- *)
\* null / undefined
Null == "null"
\* JavaScript truthiness of a string-or-null value
Truthy(v) == v \notin {Null, ""}

\* storage keys
ACCESS_TOKEN_KEY == "auth_access_token"
REFRESH_TOKEN_KEY == "auth_refresh_token"
USER_KEY == "auth_user"
PROVIDER_ID_KEY == "auth_provider_id"
Keys == {ACCESS_TOKEN_KEY, REFRESH_TOKEN_KEY, USER_KEY, PROVIDER_ID_KEY}

\* expiresAt is a number of milliseconds; an absent expiresAt and 0 are
\* both falsy for isTokenExpired
NoExpiry == 0
Past == 1
Now == 2
Future == 3

\* isTokenExpired(expiresAt)
isTokenExpired(expiresAt) ==
  IF expiresAt = NoExpiry THEN FALSE ELSE Now > expiresAt

\* AuthUser: id plus the open-ended extras, of which only expiresAt is read
Users == [id : {"1"}, expiresAt : {NoExpiry, Past}]
NullUser == [id |-> Null, expiresAt |-> NoExpiry]
\* a user record the backend sent without an id
NoIdUser == [id |-> Null, expiresAt |-> NoExpiry]

\* JSON text of a user record; a field that is undefined is left out
UserJson ==
  { [json |-> "{id:1}", user |-> [id |-> "1", expiresAt |-> NoExpiry]],
    [json |-> "{id:1,expiresAt:1}", user |-> [id |-> "1", expiresAt |-> Past]],
    [json |-> "{}", user |-> NoIdUser] }
JSON_stringify(u) == (CHOOSE e \in UserJson : e.user = u).json
JSON_parses(s) == \E e \in UserJson : e.json = s
JSON_parse(s) == (CHOOSE e \in UserJson : e.json = s).user

\* AuthSession: the sessions a provider's backend answers with
Sessions ==
  { \* unexpired, with a refresh token
    [user |-> [id |-> "1", expiresAt |-> NoExpiry], accessToken |-> "T1",
     refreshToken |-> "R1", expiresAt |-> Future],
    \* no refresh token and no expiry
    [user |-> [id |-> "1", expiresAt |-> NoExpiry], accessToken |-> "T2",
     refreshToken |-> Null, expiresAt |-> NoExpiry],
    \* expired, the expiry on the session only
    [user |-> [id |-> "1", expiresAt |-> NoExpiry], accessToken |-> "T1",
     refreshToken |-> "R1", expiresAt |-> Past],
    \* expired, the backend also puts the expiry into the user record
    [user |-> [id |-> "1", expiresAt |-> Past], accessToken |-> "T1",
     refreshToken |-> "R1", expiresAt |-> Past],
    \* response.data.user came without an id
    [user |-> NoIdUser, accessToken |-> "T3",
     refreshToken |-> Null, expiresAt |-> NoExpiry] }
NullSession == [user |-> NullUser, accessToken |-> Null,
                refreshToken |-> Null, expiresAt |-> NoExpiry]

(* ---------------- providers and registry ---------------- *)
\* CredentialsProvider, GoogleProvider, and a provider that implements only
\* the two required methods of BaseAuthProvider
Registered == {"credentials", "google", "custom"}
\* ids a caller may pass; "unknown" is not registered
ProviderIds == Registered \cup {"unknown"}
\* AuthProviderRegistry.getProvider: Map.get, exact match
getProvider(id) == IF id \in Registered THEN id ELSE Null
\* optional capabilities
\* a capability test that takes every registered provider to have signUp
HasSignUp_Any(p) == p \in Registered

HasSignUp(p) == p = "credentials"
HasRefresh(p) == p \in {"credentials", "google"}
\* provider.signOut() of the two concrete providers returns true; a custom
\* provider's promise may reject
SignOutMayReject(p) == p = "custom"

(* ---------------- state ---------------- *)
\* number of thunks that can be in flight together
MaxTasks == 2
Tasks == 1..MaxTasks

VARIABLES
  auth,     \* the Redux AuthState
  store,    \* secureStorage: key -> string or Null
  tasks,    \* the async thunks in flight
  ops,      \* dispatches so far
  faults,   \* storage failures so far
  last      \* the top-level thunk that settled last, and whether the store
            \* and AuthState have been brought in step since the process
            \* started (history)

vars == <<auth, store, tasks, ops, faults, last>>

VARIABLES
  providers,  \* AuthProviderRegistry.providers: the Map's entries, in the
              \* Map's iteration order
  regCalls    \* the providers passed to registerProvider so far (history)

regVars == <<providers, regCalls>>

VARIABLES
  Platform_OS,   \* Platform.OS
  localStorage,  \* the browser's localStorage: key -> string or Null
  SecureStore,   \* expo-secure-store: key -> string or Null
  AsyncStorage,  \* @react-native-async-storage: key -> string or Null
  lastCall,      \* the secureStorage call that returned last, its result and
                 \* the backend that served it (history)
  effect         \* per key: the last setItem / removeItem that resolved, and
                 \* the backend that served the last setItem (history)

storageVars ==
  <<Platform_OS, localStorage, SecureStore, AsyncStorage, lastCall, effect>>

VARIABLES
  draft,       \* the AuthState of the OAuth draft's authSlice
  draftStore,  \* the draft's secureStorage: key -> string or Null
  reqs,        \* the requests made through the api instance
  exit,        \* the draft's logout thunk in flight
  logouts      \* dispatches of logout so far

httpVars == <<draft, draftStore, reqs, exit, logouts>>

VARIABLES
  pathname,   \* the route expo-router shows
  seen,       \* AuthWrapper: the dependencies of its effect's last run
  redirects   \* router.replace calls of the effect in a row, with no other
              \* change of route or AuthState between them (history)

navVars == <<pathname, seen, redirects>>

VARIABLES
  users,      \* the UsersState of usersSlice
  usersLast   \* the action usersSlice reduced last (history)

usersVars == <<users, usersLast>>

\* the state of the components that the thunks of authSlice never touch
outside == <<regVars, storageVars, httpVars, navVars, usersVars>>

initialState ==
  [isAuthenticated |-> FALSE, isLoading |-> FALSE, session |-> NullSession,
   providerId |-> Null, error |-> Null]

NoKeys == [k \in Keys |-> Null]

\* what the storage may hold when the process starts: nothing, the keys an
\* earlier run's signIn left (the user record with or without an expiresAt
\* of its own), or those keys with a user record that is not JSON
PersistedStores ==
  { NoKeys,
    [k \in Keys |->
       CASE k = ACCESS_TOKEN_KEY -> "T1"
         [] k = REFRESH_TOKEN_KEY -> "R1"
         [] k = USER_KEY -> "{id:1,expiresAt:1}"
         [] k = PROVIDER_ID_KEY -> "credentials"],
    [k \in Keys |->
       CASE k = ACCESS_TOKEN_KEY -> "T1"
         [] k = REFRESH_TOKEN_KEY -> "R1"
         [] k = USER_KEY -> "{id:1}"
         [] k = PROVIDER_ID_KEY -> "credentials"],
    [k \in Keys |->
       CASE k = ACCESS_TOKEN_KEY -> "T1"
         [] k = REFRESH_TOKEN_KEY -> "R1"
         [] k = USER_KEY -> "{id:"
         [] k = PROVIDER_ID_KEY -> "credentials"] }

NoThunk == [kind |-> "none", outcome |-> "none", synced |-> FALSE]

\* a free task slot
Idle ==
  [kind |-> "none", pc |-> "idle", inner |-> FALSE, idx |-> 0,
   arg |-> Null,            \* providerId argument of signIn / signUp
   pid |-> Null,            \* state.auth.providerId read by getState()
   rd |-> NoKeys,           \* values returned by getItem
   session |-> NullSession, \* response.session / the payload
   ppid |-> Null,           \* providerId of the payload
   outcome |-> "none", err |-> Null,
   over |-> {},             \* thunks in flight when this one was dispatched
   newer |-> {},            \* thunks dispatched during this flight (history)
   wrote |-> NoKeys,        \* successful setItem calls of this task (history)
   tried |-> {},            \* removeItem calls attempted (history)
   failed |-> {}]           \* removeItem calls that threw (history)

\* new AuthProviderRegistry(): an empty Map
RegistryInit ==
  /\ providers = <<>>
  /\ regCalls = <<>>

\* the keys and values the storage service is called with
ServiceKeys == {ACCESS_TOKEN_KEY, USER_KEY}
ServiceValues == {"v1", "v2"}

NoCall ==
  [op |-> "none", key |-> Null, result |-> Null, backend |-> Null,
   ok |-> FALSE]
NoEffect == [op |-> "none", value |-> Null, setBy |-> Null]

\* the storage service on platform os before its first call
StorageInit(os) ==
  /\ Platform_OS = os
  /\ localStorage = [k \in ServiceKeys |-> Null]
  /\ SecureStore = [k \in ServiceKeys |-> Null]
  /\ AsyncStorage = [k \in ServiceKeys |-> Null]
  /\ lastCall = NoCall
  /\ effect = [k \in ServiceKeys |-> NoEffect]

\* the requests that go through the api instance
MaxRequests == 2
Requests == 1..MaxRequests

USER_INFO_KEY == "auth_user_info"
DraftKeys == {ACCESS_TOKEN_KEY, REFRESH_TOKEN_KEY, USER_INFO_KEY}

\* the draft's initialState
draftInitialState ==
  [isAuthenticated |-> FALSE, isLoading |-> FALSE, user |-> Null,
   accessToken |-> Null, refreshToken |-> Null, error |-> Null]

\* the AuthState the api instance starts with: initialState, or what a login
\* left (with or without a refresh token)
DraftStates ==
  { draftInitialState,
    [draftInitialState EXCEPT !.isAuthenticated = TRUE, !.user = "u",
                              !.accessToken = "A0", !.refreshToken = "R0"],
    [draftInitialState EXCEPT !.isAuthenticated = TRUE, !.user = "u",
                              !.accessToken = "A0"] }

\* what login wrote to the storage for the state s
DraftStored(s) ==
  [k \in DraftKeys |->
     CASE k = ACCESS_TOKEN_KEY -> s.accessToken
       [] k = REFRESH_TOKEN_KEY -> s.refreshToken
       [] k = USER_INFO_KEY -> s.user]

NoPayload == [accessToken |-> Null, refreshToken |-> Null, user |-> Null]

\* a request not made yet
NoRequest ==
  [pc |-> "idle",
   retry |-> FALSE,          \* originalRequest._retry
   authorization |-> Null,   \* the token of the Authorization header
   status |-> 0,             \* the status of the last response
   rt |-> Null,              \* refreshToken thunk: currentRefreshToken
   payload |-> NoPayload,    \* refreshToken thunk: the result so far
   idx |-> 0, outcome |-> "none", err |-> Null,
   result |-> "none",        \* what the caller of the request gets
   sends |-> 0,              \* times the request went out (history)
   refreshes |-> 0,          \* refreshToken dispatches for it (history)
   obtained |-> Null]        \* access token its refresh obtained (history)

NoLogout == [pc |-> "idle", idx |-> 0, outcome |-> "none"]

\* the api instance and the draft's store, AuthState being s
HttpInit(s) ==
  /\ draft = s
  /\ draftStore = DraftStored(s)
  /\ reqs = [r \in Requests |-> NoRequest]
  /\ exit = NoLogout
  /\ logouts = 0

\* the routes of the draft's app directory, and a path that matches none
Paths == {"/login", "/", "/missing"}

\* useSegments() on a route
useSegments(path) ==
  CASE path = "/login" -> <<"(auth)", "login">>
    [] path = "/" -> <<"(app)">>
    [] OTHER -> <<"+not-found">>

\* AuthWrapper before its effect has run
NoDeps == [isAuthenticated |-> FALSE, segments |-> <<>>, isLoading |-> FALSE]

\* the app opened on route path
NavInit(path) ==
  /\ pathname = path
  /\ seen = NoDeps
  /\ redirects = 0

\* currentUser: null
NoUser == [id |-> Null, name |-> Null]

\* usersSlice: initialState
usersInitialState ==
  [list |-> <<>>, currentUser |-> NoUser, error |-> FALSE, loading |-> FALSE,
   success |-> FALSE, message |-> Null]

\* no action reduced yet; an action is recorded with its type and, by the
\* type, the user record or the id of its payload
NoAction == [type |-> "none", user |-> NoUser, id |-> Null]

UsersInit ==
  /\ users = usersInitialState
  /\ usersLast = NoAction

Init ==
  /\ auth = initialState
  /\ store \in PersistedStores
  /\ tasks = [t \in Tasks |-> Idle]
  /\ ops = 0
  /\ faults = 0
  /\ last = NoThunk
  /\ RegistryInit
  /\ StorageInit("ios")
  /\ HttpInit(draftInitialState)
  /\ NavInit("/")
  /\ UsersInit

(* ---------------- reducers of authSlice ---------------- *)
clearError(s) == [s EXCEPT !.error = Null]

signIn_pending(s) == [s EXCEPT !.isLoading = TRUE, !.error = Null]
signIn_fulfilled(s, session, providerId) ==
  [s EXCEPT !.isLoading = FALSE, !.isAuthenticated = TRUE,
            !.session = session, !.providerId = providerId]
signIn_rejected(s, payload) == [s EXCEPT !.isLoading = FALSE, !.error = payload]

signUp_pending(s) == [s EXCEPT !.isLoading = TRUE, !.error = Null]
signUp_fulfilled(s, session, providerId) ==
  [s EXCEPT !.isLoading = FALSE, !.isAuthenticated = TRUE,
            !.session = session, !.providerId = providerId]
signUp_rejected(s, payload) == [s EXCEPT !.isLoading = FALSE, !.error = payload]

signOut_pending(s) == [s EXCEPT !.isLoading = TRUE]
signOut_fulfilled(s) ==
  [s EXCEPT !.isLoading = FALSE, !.isAuthenticated = FALSE,
            !.session = NullSession, !.providerId = Null]
\* a signOut.rejected that forgets to drop the session
signOut_rejected_KeepsSession(s) ==
  [s EXCEPT !.isLoading = FALSE, !.isAuthenticated = FALSE]

signOut_rejected(s) ==
  [s EXCEPT !.isLoading = FALSE, !.isAuthenticated = FALSE,
            !.session = NullSession, !.providerId = Null]

checkAuth_pending(s) == [s EXCEPT !.isLoading = TRUE]
checkAuth_fulfilled(s, session, providerId) ==
  [s EXCEPT !.isLoading = FALSE, !.isAuthenticated = TRUE,
            !.session = session, !.providerId = providerId]
\* a checkAuth.rejected that leaves the loading flag on
checkAuth_rejected_StillLoading(s) ==
  [s EXCEPT !.isAuthenticated = FALSE, !.session = NullSession,
            !.providerId = Null]

checkAuth_rejected(s) ==
  [s EXCEPT !.isLoading = FALSE, !.isAuthenticated = FALSE,
            !.session = NullSession, !.providerId = Null]

refreshSession_pending(s) == [s EXCEPT !.isLoading = TRUE]
refreshSession_fulfilled(s, session, providerId) ==
  [s EXCEPT !.isLoading = FALSE, !.isAuthenticated = TRUE,
            !.session = session, !.providerId = providerId]
refreshSession_rejected(s) ==
  [s EXCEPT !.isLoading = FALSE, !.isAuthenticated = FALSE,
            !.session = NullSession, !.providerId = Null]

Kinds == {"signIn", "signUp", "signOut", "refreshSession", "checkAuth"}

\* the pending reducer of a thunk
Pending(s, thunk) ==
  CASE thunk = "signIn" -> signIn_pending(s)
    [] thunk = "signUp" -> signUp_pending(s)
    [] thunk = "signOut" -> signOut_pending(s)
    [] thunk = "checkAuth" -> checkAuth_pending(s)
    [] thunk = "refreshSession" -> refreshSession_pending(s)

\* the fulfilled / rejected reducer of a thunk, applied to its result
Settled(s, thunk, task) ==
  IF task.outcome = "fulfilled"
  THEN CASE thunk = "signIn" -> signIn_fulfilled(s, task.session, task.ppid)
         [] thunk = "signUp" -> signUp_fulfilled(s, task.session, task.ppid)
         [] thunk = "signOut" -> signOut_fulfilled(s)
         [] thunk = "checkAuth" -> checkAuth_fulfilled(s, task.session, task.ppid)
         [] thunk = "refreshSession" ->
              refreshSession_fulfilled(s, task.session, task.ppid)
  ELSE CASE thunk = "signIn" -> signIn_rejected(s, task.err)
         [] thunk = "signUp" -> signUp_rejected(s, task.err)
         [] thunk = "signOut" -> signOut_rejected(s)
         [] thunk = "checkAuth" -> checkAuth_rejected(s)
         [] thunk = "refreshSession" -> refreshSession_rejected(s)

(* ---------------- the thunks ---------------- *)
\* the thunk a task is executing: checkAuth runs a dispatched refreshSession
\* to its end (unwrap) before it goes on
Thunk(task) == IF task.inner THEN "refreshSession" ELSE task.kind

InFlight == {t \in Tasks : tasks[t].pc # "idle"}

\* an exception inside the try block of a thunk: checkAuth's catch removes the
\* keys before it rejects, the other thunks reject at once; an exception in
\* checkAuth's catch block rejects the thunk
Throw(task, msg) ==
  IF task.kind = "checkAuth" /\ ~task.inner /\ task.pc # "delete"
  THEN [task EXCEPT !.pc = "delete", !.idx = 1, !.err = msg,
                    !.rd = NoKeys, !.wrote = NoKeys, !.session = NullSession]
  ELSE [task EXCEPT !.pc = "settle", !.idx = 0, !.outcome = "rejected",
                    !.err = msg, !.rd = NoKeys, !.wrote = NoKeys,
                    !.session = NullSession]

\* a signIn that returns after its first setItem
SetItemCalls_TokenOnly(thunk, session, providerId) ==
  <<<<ACCESS_TOKEN_KEY, session.accessToken>>>>

\* the setItem calls of a successful signIn / signUp / refreshSession, in order
SetItemCalls(thunk, session, providerId) ==
  <<<<ACCESS_TOKEN_KEY, session.accessToken>>>>
  \o (IF Truthy(session.refreshToken)
      THEN <<<<REFRESH_TOKEN_KEY, session.refreshToken>>>> ELSE <<>>)
  \o <<<<USER_KEY, JSON_stringify(session.user)>>>>
  \o (IF thunk = "refreshSession" THEN <<>>
      ELSE <<<<PROVIDER_ID_KEY, providerId>>>>)

\* the removeItem calls of signOut and of checkAuth's catch block, in order
RemoveItemCalls ==
  <<ACCESS_TOKEN_KEY, REFRESH_TOKEN_KEY, USER_KEY, PROVIDER_ID_KEY>>

\* the getItem calls of refreshSession and of checkAuth, in order
GetItemCalls(thunk) ==
  IF thunk = "refreshSession" THEN <<REFRESH_TOKEN_KEY>>
  ELSE <<ACCESS_TOKEN_KEY, REFRESH_TOKEN_KEY, USER_KEY, PROVIDER_ID_KEY>>

\* a thunk from its dispatch to its first await; s is the state getState()
\* returns
Begin(task, thunk, s) ==
  CASE thunk = "signIn" ->
         IF getProvider(task.arg) = Null
         THEN Throw(task, "Provider not found")
         ELSE [task EXCEPT !.pc = "provider"]
    [] thunk = "signUp" ->
         IF getProvider(task.arg) = Null \/ ~HasSignUp(getProvider(task.arg))
         THEN Throw(task, "Provider does not support sign up")
         ELSE [task EXCEPT !.pc = "provider"]
    [] thunk = "signOut" ->
         IF Truthy(s.providerId) /\ getProvider(s.providerId) # Null
         THEN [task EXCEPT !.pid = s.providerId, !.pc = "provider"]
         ELSE [task EXCEPT !.pid = s.providerId, !.pc = "delete", !.idx = 1]
    [] thunk = "refreshSession" ->
         [task EXCEPT !.pid = s.providerId, !.pc = "read", !.idx = 1]
    [] thunk = "checkAuth" ->
         [task EXCEPT !.pc = "read", !.idx = 1]

\* the first free slot takes the next thunk
Free(t) ==
  /\ ops < MaxOps
  /\ tasks[t].pc = "idle"
  /\ \A u \in Tasks : u < t => tasks[u].pc # "idle"

\* dispatch(thunk(arg)): the pending reducer, then the thunk up to its first
\* await
Dispatch(t, kind, arg) ==
  /\ auth' = Pending(auth, kind)
  /\ tasks' = [u \in Tasks |->
       IF u = t
       THEN Begin([Idle EXCEPT !.kind = kind, !.arg = arg,
                               !.over = {Thunk(tasks[v]) : v \in InFlight}],
                  kind, auth)
       ELSE IF tasks[u].pc = "idle" THEN tasks[u]
       ELSE [tasks[u] EXCEPT !.newer = @ \cup {kind}]]
  /\ ops' = ops + 1
  /\ UNCHANGED <<store, faults, last, outside>>

signIn(t) ==
  /\ Free(t)
  /\ \E providerId \in ProviderIds : Dispatch(t, "signIn", providerId)

signUp(t) ==
  /\ Free(t)
  /\ \E providerId \in ProviderIds : Dispatch(t, "signUp", providerId)

signOut(t) ==
  /\ Free(t)
  /\ Dispatch(t, "signOut", Null)

refreshSession(t) ==
  /\ Free(t)
  /\ Dispatch(t, "refreshSession", Null)

checkAuth(t) ==
  /\ Free(t)
  /\ Dispatch(t, "checkAuth", Null)

\* a provider.signIn that stores the access token itself before it returns
SignInResponse_Persists(t) ==
  /\ tasks[t].pc = "provider"
  /\ Thunk(tasks[t]) \in {"signIn", "signUp"}
  /\ \/ \E session \in Sessions :
          /\ tasks' = [tasks EXCEPT ![t] =
               [@ EXCEPT !.session = session, !.ppid = tasks[t].arg,
                         !.pc = "write", !.idx = 1]]
          /\ store' = [store EXCEPT ![ACCESS_TOKEN_KEY] = session.accessToken]
     \/ /\ tasks' = [tasks EXCEPT ![t] =
             Throw(@, IF @.kind = "signIn" THEN "Sign in failed"
                      ELSE "Sign up failed")]
        /\ UNCHANGED store
  /\ UNCHANGED <<auth, ops, faults, last, outside>>

\* provider.signIn / provider.signUp resolves
SignInResponse(t) ==
  /\ tasks[t].pc = "provider"
  /\ Thunk(tasks[t]) \in {"signIn", "signUp"}
  /\ \/ \E session \in Sessions :
          tasks' = [tasks EXCEPT ![t] =
            [@ EXCEPT !.session = session, !.ppid = tasks[t].arg,
                      !.pc = "write", !.idx = 1]]
     \/ tasks' = [tasks EXCEPT ![t] =
          Throw(@, IF @.kind = "signIn" THEN "Sign in failed"
                   ELSE "Sign up failed")]
  /\ UNCHANGED <<auth, store, ops, faults, last, outside>>

\* provider.signOut resolves or rejects
SignOutResponse(t) ==
  /\ tasks[t].pc = "provider"
  /\ Thunk(tasks[t]) = "signOut"
  /\ \/ tasks' = [tasks EXCEPT ![t] = [@ EXCEPT !.pc = "delete", !.idx = 1]]
     \/ /\ SignOutMayReject(getProvider(tasks[t].pid))
        /\ tasks' = [tasks EXCEPT ![t] = Throw(@, "Sign out failed")]
  /\ UNCHANGED <<auth, store, ops, faults, last, outside>>

\* provider.refreshSession resolves
RefreshResponse(t) ==
  /\ tasks[t].pc = "provider"
  /\ Thunk(tasks[t]) = "refreshSession"
  /\ \/ \E session \in Sessions :
          tasks' = [tasks EXCEPT ![t] =
            [@ EXCEPT !.session = session, !.ppid = tasks[t].pid,
                      !.rd = NoKeys, !.pc = "write", !.idx = 1]]
     \/ tasks' = [tasks EXCEPT ![t] = Throw(@, "Session refresh failed")]
  /\ UNCHANGED <<auth, store, ops, faults, last, outside>>

\* secureStorage.setItem resolves
SetItem(t) ==
  /\ tasks[t].pc = "write"
  /\ LET task == tasks[t]
         calls == SetItemCalls(Thunk(task), task.session, task.ppid)
         key == calls[task.idx][1]
         value == calls[task.idx][2]
     IN /\ store' = [store EXCEPT ![key] = value]
        /\ tasks' = [tasks EXCEPT ![t] =
             IF task.idx = Len(calls)
             THEN [task EXCEPT !.wrote[key] = value, !.pc = "settle",
                               !.idx = 0, !.outcome = "fulfilled"]
             ELSE [task EXCEPT !.wrote[key] = value, !.idx = @ + 1]]
  /\ UNCHANGED <<auth, ops, faults, last, outside>>

\* secureStorage.setItem rejects
SetItemFails(t) ==
  /\ tasks[t].pc = "write"
  /\ faults < MaxFaults
  /\ faults' = faults + 1
  /\ tasks' = [tasks EXCEPT ![t] = Throw(@, "Storage error")]
  /\ UNCHANGED <<auth, store, ops, last, outside>>

\* secureStorage.removeItem resolves
RemoveItem(t) ==
  /\ tasks[t].pc = "delete"
  /\ LET task == tasks[t]
         key == RemoveItemCalls[task.idx]
     IN /\ store' = [store EXCEPT ![key] = Null]
        /\ tasks' = [tasks EXCEPT ![t] =
             IF task.idx = Len(RemoveItemCalls)
             THEN [task EXCEPT !.tried = @ \cup {key}, !.pc = "settle",
                     !.idx = 0, !.outcome = IF task.kind = "signOut" THEN "fulfilled"
                                 ELSE "rejected"]
             ELSE [task EXCEPT !.tried = @ \cup {key}, !.idx = @ + 1]]
  /\ UNCHANGED <<auth, ops, faults, last, outside>>

\* secureStorage.removeItem rejects
RemoveItemFails(t) ==
  /\ tasks[t].pc = "delete"
  /\ faults < MaxFaults
  /\ faults' = faults + 1
  /\ LET key == RemoveItemCalls[tasks[t].idx]
     IN tasks' = [tasks EXCEPT ![t] =
          Throw([@ EXCEPT !.tried = @ \cup {key}, !.failed = @ \cup {key}],
                "Storage error")]
  /\ UNCHANGED <<auth, store, ops, last, outside>>

\* refreshSession after its getItem: the checks before provider.refreshSession
AfterRefreshRead(task) ==
  IF ~Truthy(task.pid) \/ ~Truthy(task.rd[REFRESH_TOKEN_KEY])
  THEN Throw(task, "No active session found")
  ELSE IF getProvider(task.pid) = Null \/ ~HasRefresh(getProvider(task.pid))
  THEN Throw(task, "Provider does not support session refresh")
  ELSE [task EXCEPT !.pc = "provider", !.idx = 0]

\* the session checkAuth builds from what it read: no expiresAt of its own
RestoredSession(rd) ==
  [user |-> JSON_parse(rd[USER_KEY]),
   accessToken |-> rd[ACCESS_TOKEN_KEY],
   refreshToken |-> IF Truthy(rd[REFRESH_TOKEN_KEY])
                    THEN rd[REFRESH_TOKEN_KEY] ELSE Null,
   expiresAt |-> NoExpiry]

\* a checkAuth that does not test the provider id it read
AfterCheckReads_NoProviderTest(task, s, over) ==
  IF \/ ~Truthy(task.rd[ACCESS_TOKEN_KEY])
     \/ ~Truthy(task.rd[USER_KEY])
  THEN Throw(task, "No active session found")
  ELSE IF ~JSON_parses(task.rd[USER_KEY])
  THEN Throw(task, "Unexpected token in JSON")
  ELSE LET session == RestoredSession(task.rd)
       IN IF session.user.expiresAt # NoExpiry
             /\ isTokenExpired(session.user.expiresAt)
          THEN IF Truthy(task.rd[REFRESH_TOKEN_KEY])
               THEN Begin([task EXCEPT !.inner = TRUE, !.over = over],
                          "refreshSession", s)
               ELSE Throw(task, "Session expired")
          ELSE [task EXCEPT !.session = session,
                            !.ppid = task.rd[PROVIDER_ID_KEY],
                            !.rd = NoKeys, !.idx = 0,
                            !.pc = "settle", !.outcome = "fulfilled"]

\* checkAuth after its four getItem calls; s is the state a dispatched
\* refreshSession reads, over the thunks in flight beside this one
AfterCheckReads(task, s, over) ==
  IF \/ ~Truthy(task.rd[ACCESS_TOKEN_KEY])
     \/ ~Truthy(task.rd[USER_KEY])
     \/ ~Truthy(task.rd[PROVIDER_ID_KEY])
  THEN Throw(task, "No active session found")
  ELSE IF ~JSON_parses(task.rd[USER_KEY])
  THEN Throw(task, "Unexpected token in JSON")
  ELSE LET session == RestoredSession(task.rd)
       IN IF session.user.expiresAt # NoExpiry
             /\ isTokenExpired(session.user.expiresAt)
          THEN IF Truthy(task.rd[REFRESH_TOKEN_KEY])
               THEN Begin([task EXCEPT !.inner = TRUE, !.over = over],
                          "refreshSession", s)
               ELSE Throw(task, "Session expired")
          ELSE [task EXCEPT !.session = session,
                            !.ppid = task.rd[PROVIDER_ID_KEY],
                            !.rd = NoKeys, !.idx = 0,
                            !.pc = "settle", !.outcome = "fulfilled"]

\* secureStorage.getItem resolves
GetItem(t) ==
  /\ tasks[t].pc = "read"
  /\ LET task == tasks[t]
         calls == GetItemCalls(Thunk(task))
         key == calls[task.idx]
         got == [task EXCEPT !.rd[key] = store[key]]
         next == IF task.idx < Len(calls) THEN [got EXCEPT !.idx = @ + 1]
                 ELSE IF Thunk(task) = "refreshSession"
                 THEN AfterRefreshRead(got)
                 ELSE AfterCheckReads(got, auth,
                        {Thunk(tasks[v]) : v \in InFlight \ {t}})
     IN /\ tasks' = [tasks EXCEPT ![t] = next]
        /\ auth' = IF next.inner /\ ~task.inner
                   THEN Pending(auth, "refreshSession") ELSE auth
  /\ UNCHANGED <<store, ops, faults, last, outside>>

\* secureStorage.getItem rejects
GetItemFails(t) ==
  /\ tasks[t].pc = "read"
  /\ faults < MaxFaults
  /\ faults' = faults + 1
  /\ tasks' = [tasks EXCEPT ![t] = Throw(@, "Storage error")]
  /\ UNCHANGED <<auth, store, ops, last, outside>>

\* the results that are to leave store and AuthState in step: every fulfilled
\* thunk (it wrote, read or removed the keys of the session it publishes or
\* drops), and a rejected signOut or checkAuth
InStep(kind, outcome) ==
  \/ outcome = "fulfilled"
  \/ kind \in {"signOut", "checkAuth"}

\* the result that was reduced last
Last(kind, outcome) == last.kind = kind /\ last.outcome = outcome

\* the fulfilled / rejected action of a top-level thunk reaches the reducer
Settle(t) ==
  /\ tasks[t].pc = "settle"
  /\ ~tasks[t].inner
  /\ auth' = Settled(auth, tasks[t].kind, tasks[t])
  /\ tasks' = [tasks EXCEPT ![t] = Idle]
  /\ last' = [kind |-> tasks[t].kind, outcome |-> tasks[t].outcome,
               synced |-> last.synced \/ InStep(tasks[t].kind, tasks[t].outcome)]
  /\ UNCHANGED <<store, ops, faults, outside>>

\* the refreshSession dispatched by checkAuth settles; unwrap() returns its
\* payload or throws into checkAuth's catch block
SettleInner(t) ==
  /\ tasks[t].pc = "settle"
  /\ tasks[t].inner
  /\ auth' = Settled(auth, "refreshSession", tasks[t])
  /\ tasks' = [tasks EXCEPT ![t] =
       IF @.outcome = "fulfilled" THEN [@ EXCEPT !.inner = FALSE]
       ELSE Throw([@ EXCEPT !.inner = FALSE, !.outcome = "none"],
                  "Authentication check failed")]
  /\ UNCHANGED <<store, ops, faults, last, outside>>

\* the clearError action
ClearError ==
  /\ auth.error # Null
  /\ auth' = clearError(auth)
  /\ UNCHANGED <<store, tasks, ops, faults, last, outside>>

\* the process ends and starts again: the store stays, the Redux state is
\* initialState again and the thunks in flight are gone
Restart ==
  /\ ops < MaxOps
  /\ ops' = ops + 1
  /\ auth' = initialState
  /\ tasks' = [t \in Tasks |-> Idle]
  /\ last' = NoThunk
  /\ UNCHANGED <<store, faults, outside>>

Next ==
  \/ \E t \in Tasks : signIn(t)
  \/ \E t \in Tasks : signUp(t)
  \/ \E t \in Tasks : signOut(t)
  \/ \E t \in Tasks : refreshSession(t)
  \/ \E t \in Tasks : checkAuth(t)
  \/ \E t \in Tasks : SignInResponse(t)
  \/ \E t \in Tasks : SignOutResponse(t)
  \/ \E t \in Tasks : RefreshResponse(t)
  \/ \E t \in Tasks : SetItem(t)
  \/ \E t \in Tasks : SetItemFails(t)
  \/ \E t \in Tasks : RemoveItem(t)
  \/ \E t \in Tasks : RemoveItemFails(t)
  \/ \E t \in Tasks : GetItem(t)
  \/ \E t \in Tasks : GetItemFails(t)
  \/ \E t \in Tasks : Settle(t)
  \/ \E t \in Tasks : SettleInner(t)
  \/ ClearError
  \/ Restart

Spec == Init /\ [][Next]_vars

\* the pending await of thunk t returns or fails, or its result is reduced
Advance(t) ==
  \/ SignInResponse(t)
  \/ SignOutResponse(t)
  \/ RefreshResponse(t)
  \/ SetItem(t)
  \/ SetItemFails(t)
  \/ RemoveItem(t)
  \/ RemoveItemFails(t)
  \/ GetItem(t)
  \/ GetItemFails(t)
  \/ Settle(t)
  \/ SettleInner(t)

\* every provider call and every storage call eventually returns or fails,
\* and the event loop runs every continuation that is ready
LiveSpec == Spec /\ \A t \in Tasks : WF_vars(Advance(t))

(* ---------------- AuthProviderRegistry ---------------- *)
\* the number of registerProvider calls
MaxCalls == 3

\* the provider objects handed to the registry: BaseAuthProvider's id, name
\* and enabled fields; two ids differ only in case
RegistryIds == {"google", "Google", "credentials"}
ProviderObjects == [id : RegistryIds, name : {"n1", "n2"}, enabled : BOOLEAN]

\* Map.prototype.has
Map_has(m, k) == \E i \in 1..Len(m) : m[i].id = k

\* a set that keeps the value an existing key already has
Map_set_KeepFirst(m, k, v) ==
  IF Map_has(m, k) THEN m ELSE Append(m, v)

\* a set that moves an existing key to the end
Map_set_MoveToEnd(m, k, v) ==
  Append(SelectSeq(m, LAMBDA e : e.id # k), v)

\* Map.prototype.set: the value of an existing key is replaced where the key
\* stands, a new key goes to the end
Map_set(m, k, v) ==
  IF Map_has(m, k)
  THEN [i \in 1..Len(m) |-> IF m[i].id = k THEN v ELSE m[i]]
  ELSE Append(m, v)

\* what a lookup that finds nothing returns (undefined)
NoProvider == [id |-> Null, name |-> Null, enabled |-> FALSE]

\* Map.prototype.get: undefined for a key that is not in the Map
Map_get(m, k) ==
  IF Map_has(m, k) THEN m[CHOOSE i \in 1..Len(m) : m[i].id = k]
  ELSE NoProvider

\* a registerProvider without the test of provider.enabled
registerProvider_NoEnabledTest(provider) ==
  /\ Len(regCalls) < MaxCalls
  /\ providers' = Map_set(providers, provider.id, provider)
  /\ regCalls' = Append(regCalls, provider)
  /\ UNCHANGED <<vars, storageVars, httpVars,
               navVars, usersVars>>

registerProvider(provider) ==
  /\ Len(regCalls) < MaxCalls
  /\ providers' = IF ~provider.enabled THEN providers
                  ELSE Map_set(providers, provider.id, provider)
  /\ regCalls' = Append(regCalls, provider)
  /\ UNCHANGED <<vars, storageVars, httpVars,
               navVars, usersVars>>

\* AuthProviderRegistry.getProvider on the registry's Map
Registry_getProvider(providerId) == Map_get(providers, providerId)

getAllProviders == providers

availableProviders == [i \in 1..Len(getAllProviders) |-> getAllProviders[i].id]

RegistryNext == \E provider \in ProviderObjects : registerProvider(provider)

\* the store before any thunk has been dispatched, nothing persisted
SessionIdle ==
  /\ auth = initialState
  /\ store = NoKeys
  /\ tasks = [t \in Tasks |-> Idle]
  /\ ops = 0
  /\ faults = 0
  /\ last = NoThunk

RegistryOnly ==
  /\ SessionIdle
  /\ RegistryInit
  /\ StorageInit("ios")
  /\ HttpInit(draftInitialState)
  /\ NavInit("/")
  /\ UsersInit

\* the registry alone: the session manager stays as it was constructed
RegistrySpec == RegistryOnly /\ [][RegistryNext]_<<vars, outside>>

(* ---------------- secureStorage ---------------- *)
\* a call returns: what it did, and for a setItem / removeItem that resolved,
\* what the key is now to hold
Returns(op, k, v, backend, ok) ==
  /\ lastCall' = [op |-> op, key |-> k, result |-> v, backend |-> backend,
                  ok |-> ok]
  /\ effect' =
       IF ok /\ op = "setItem"
       THEN [effect EXCEPT ![k] = [op |-> op, value |-> v, setBy |-> backend]]
       ELSE IF ok /\ op = "removeItem"
       THEN [effect EXCEPT ![k] = [@ EXCEPT !.op = op, !.value = Null]]
       ELSE effect

\* webStorage: localStorage is the only backend; its setItem can throw (quota)
webStorage_getItem(k) ==
  /\ Platform_OS = "web"
  /\ Returns("getItem", k, localStorage[k], "localStorage", TRUE)
  /\ UNCHANGED <<localStorage, SecureStore, AsyncStorage, Platform_OS>>

webStorage_setItem(k, v) ==
  /\ Platform_OS = "web"
  /\ \/ /\ localStorage' = [localStorage EXCEPT ![k] = v]
        /\ Returns("setItem", k, v, "localStorage", TRUE)
     \/ /\ localStorage' = localStorage
        /\ Returns("setItem", k, v, "localStorage", FALSE)
  /\ UNCHANGED <<SecureStore, AsyncStorage, Platform_OS>>

webStorage_removeItem(k) ==
  /\ Platform_OS = "web"
  /\ localStorage' = [localStorage EXCEPT ![k] = Null]
  /\ Returns("removeItem", k, Null, "localStorage", TRUE)
  /\ UNCHANGED <<SecureStore, AsyncStorage, Platform_OS>>

\* nativeStorage: SecureStore first and, when that call throws, AsyncStorage;
\* the call rejects when AsyncStorage throws as well
nativeStorage_getItem(k) ==
  /\ Platform_OS # "web"
  /\ \/ Returns("getItem", k, SecureStore[k], "SecureStore", TRUE)
     \/ Returns("getItem", k, AsyncStorage[k], "AsyncStorage", TRUE)
     \/ Returns("getItem", k, Null, "AsyncStorage", FALSE)
  /\ UNCHANGED <<localStorage, SecureStore, AsyncStorage, Platform_OS>>

nativeStorage_setItem(k, v) ==
  /\ Platform_OS # "web"
  /\ \/ /\ SecureStore' = [SecureStore EXCEPT ![k] = v]
        /\ AsyncStorage' = AsyncStorage
        /\ Returns("setItem", k, v, "SecureStore", TRUE)
     \/ /\ SecureStore' = SecureStore
        /\ AsyncStorage' = [AsyncStorage EXCEPT ![k] = v]
        /\ Returns("setItem", k, v, "AsyncStorage", TRUE)
     \/ /\ UNCHANGED <<SecureStore, AsyncStorage>>
        /\ Returns("setItem", k, v, "AsyncStorage", FALSE)
  /\ UNCHANGED <<localStorage, Platform_OS>>

nativeStorage_removeItem(k) ==
  /\ Platform_OS # "web"
  /\ \/ /\ SecureStore' = [SecureStore EXCEPT ![k] = Null]
        /\ AsyncStorage' = AsyncStorage
        /\ Returns("removeItem", k, Null, "SecureStore", TRUE)
     \/ /\ SecureStore' = SecureStore
        /\ AsyncStorage' = [AsyncStorage EXCEPT ![k] = Null]
        /\ Returns("removeItem", k, Null, "AsyncStorage", TRUE)
     \/ /\ UNCHANGED <<SecureStore, AsyncStorage>>
        /\ Returns("removeItem", k, Null, "AsyncStorage", FALSE)
  /\ UNCHANGED <<localStorage, Platform_OS>>

\* secureStorage: webStorage on the web, nativeStorage elsewhere
secureStorage_getItem(k) ==
  /\ webStorage_getItem(k) \/ nativeStorage_getItem(k)
  /\ UNCHANGED <<vars, regVars, httpVars,
               navVars, usersVars>>

secureStorage_setItem(k, v) ==
  /\ webStorage_setItem(k, v) \/ nativeStorage_setItem(k, v)
  /\ UNCHANGED <<vars, regVars, httpVars,
               navVars, usersVars>>

secureStorage_removeItem(k) ==
  /\ webStorage_removeItem(k) \/ nativeStorage_removeItem(k)
  /\ UNCHANGED <<vars, regVars, httpVars,
               navVars, usersVars>>

StorageNext ==
  \/ \E k \in ServiceKeys : secureStorage_getItem(k)
  \/ \E k \in ServiceKeys, v \in ServiceValues : secureStorage_setItem(k, v)
  \/ \E k \in ServiceKeys : secureStorage_removeItem(k)

StorageOnly ==
  /\ SessionIdle
  /\ RegistryInit
  /\ HttpInit(draftInitialState)
  /\ NavInit("/")
  /\ UsersInit
  /\ \E os \in {"web", "ios"} : StorageInit(os)

\* the storage service alone, on either platform
StorageSpec == StorageOnly /\ [][StorageNext]_<<vars, outside>>

(* ---------------- api: the axios instance of the OAuth draft ---------------- *)
\* the number of logout dispatches
MaxLogouts == 1

\* reducers of the draft's authSlice
refreshToken_pending(s) == [s EXCEPT !.isLoading = TRUE]
refreshToken_fulfilled(s, payload) ==
  [s EXCEPT !.isLoading = FALSE, !.isAuthenticated = TRUE,
            !.accessToken = payload.accessToken,
            !.refreshToken = payload.refreshToken, !.user = payload.user]
refreshToken_rejected(s, payload) ==
  [s EXCEPT !.isLoading = FALSE, !.isAuthenticated = FALSE,
            !.accessToken = Null, !.refreshToken = Null, !.user = Null,
            !.error = payload]
logout_pending(s) == [s EXCEPT !.isLoading = TRUE]
logout_fulfilled(s) ==
  [s EXCEPT !.isLoading = FALSE, !.isAuthenticated = FALSE,
            !.accessToken = Null, !.refreshToken = Null, !.user = Null]
logout_rejected(s) ==
  [s EXCEPT !.isLoading = FALSE, !.isAuthenticated = FALSE,
            !.accessToken = Null, !.refreshToken = Null, !.user = Null]

\* the statuses a response can have
Statuses == {200, 401, 500}

\* the access token the token endpoint issues for the refresh of request r
NewToken(r) == IF r = 1 THEN "N1" ELSE "N2"

\* api.interceptors.request: the Authorization header carries the access token
\* of the state, if there is one
HttpRequest(r) ==
  /\ reqs[r].pc = "idle"
  /\ \A u \in Requests : u < r => reqs[u].pc # "idle"
  /\ reqs' = [reqs EXCEPT ![r] =
       [@ EXCEPT !.pc = "sent", !.sends = 1,
                 !.authorization = IF Truthy(draft.accessToken)
                                   THEN draft.accessToken ELSE Null]]
  /\ UNCHANGED <<draft, draftStore, exit, logouts, vars, regVars, storageVars,
               navVars, usersVars>>

\* a response interceptor that refreshes on every 401
ShouldRefresh_Any401(status, req) == status = 401

\* api.interceptors.response, onRejected: the test that starts a refresh. The
\* retried request goes out through the global axios, which has no
\* interceptors, so only the first response of a request gets here
ShouldRefresh(status, req) ==
  /\ req.pc = "sent"
  /\ status = 401
  /\ ~req.retry

\* refreshToken from its dispatch to its first await
BeginRefresh(req, s) ==
  IF ~Truthy(s.refreshToken)
  THEN [req EXCEPT !.pc = "refreshed", !.outcome = "rejected",
                   !.err = "No refresh token available"]
  ELSE [req EXCEPT !.pc = "refresh", !.rt = s.refreshToken]

\* the response of a request arrives: it goes to the caller, or the
\* interceptor marks the request and dispatches refreshToken
HttpResponse(r) ==
  /\ reqs[r].pc \in {"sent", "retried"}
  /\ \E status \in Statuses :
       IF status = 200
       THEN /\ reqs' = [reqs EXCEPT ![r] =
                 [@ EXCEPT !.pc = "done", !.status = status, !.result = "ok"]]
            /\ draft' = draft
       ELSE IF ShouldRefresh(status, reqs[r])
       THEN /\ draft' = refreshToken_pending(draft)
            /\ reqs' = [reqs EXCEPT ![r] =
                 BeginRefresh([@ EXCEPT !.retry = TRUE, !.status = status,
                                        !.refreshes = @ + 1,
                                        !.outcome = "none", !.err = Null,
                                        !.payload = NoPayload],
                              draft)]
       ELSE /\ reqs' = [reqs EXCEPT ![r] =
                 [@ EXCEPT !.pc = "done", !.status = status,
                           !.result = "failed"]]
            /\ draft' = draft
  /\ UNCHANGED <<draftStore, exit, logouts, vars, regVars, storageVars,
               navVars, usersVars>>

\* refreshToken: await refresh(authConfig, {refreshToken}) resolves, with or
\* without a new refresh token, or rejects
TokenResponse(r) ==
  /\ reqs[r].pc = "refresh"
  /\ \/ \E newRefreshToken \in {Null, "R9"} :
          reqs' = [reqs EXCEPT ![r] =
            [@ EXCEPT !.pc = "userinfo",
                      !.payload = [accessToken |-> NewToken(r),
                                   refreshToken |-> newRefreshToken,
                                   user |-> Null]]]
     \/ reqs' = [reqs EXCEPT ![r] =
          [@ EXCEPT !.pc = "refreshed", !.outcome = "rejected",
                    !.err = "Token refresh failed"]]
  /\ UNCHANGED <<draft, draftStore, exit, logouts, vars, regVars, storageVars,
               navVars, usersVars>>

\* refreshToken: await getUserInfo(result.accessToken) resolves or throws
UserInfoResponse(r) ==
  /\ reqs[r].pc = "userinfo"
  /\ \/ reqs' = [reqs EXCEPT ![r] =
          [@ EXCEPT !.pc = "write", !.idx = 1, !.payload.user = "u"]]
     \/ reqs' = [reqs EXCEPT ![r] =
          [@ EXCEPT !.pc = "refreshed", !.outcome = "rejected",
                    !.err = "Failed to get user info"]]
  /\ UNCHANGED <<draft, draftStore, exit, logouts, vars, regVars, storageVars,
               navVars, usersVars>>

\* refreshToken: the setItem calls, in order
DraftSetItemCalls(payload) ==
  <<<<ACCESS_TOKEN_KEY, payload.accessToken>>>>
  \o (IF Truthy(payload.refreshToken)
      THEN <<<<REFRESH_TOKEN_KEY, payload.refreshToken>>>> ELSE <<>>)
  \o <<<<USER_INFO_KEY, payload.user>>>>

\* refreshToken: a setItem resolves; after the last one the thunk returns the
\* new access token, result.refreshToken || currentRefreshToken and the user
DraftSetItem(r) ==
  /\ reqs[r].pc = "write"
  /\ LET writes == DraftSetItemCalls(reqs[r].payload)
         w == writes[reqs[r].idx]
     IN /\ draftStore' = [draftStore EXCEPT ![w[1]] = w[2]]
        /\ reqs' = [reqs EXCEPT ![r] =
             IF @.idx < Len(writes) THEN [@ EXCEPT !.idx = @ + 1]
             ELSE [@ EXCEPT !.pc = "refreshed", !.idx = 0,
                            !.outcome = "fulfilled",
                            !.payload.refreshToken =
                               IF Truthy(@) THEN @ ELSE reqs[r].rt]]
  /\ UNCHANGED <<draft, exit, logouts, vars, regVars, storageVars,
               navVars, usersVars>>

\* refreshToken: a setItem rejects
DraftSetItemFails(r) ==
  /\ reqs[r].pc = "write"
  /\ reqs' = [reqs EXCEPT ![r] =
       [@ EXCEPT !.pc = "refreshed", !.idx = 0, !.outcome = "rejected",
                 !.err = "Storage error"]]
  /\ UNCHANGED <<draft, draftStore, exit, logouts, vars, regVars, storageVars,
               navVars, usersVars>>

\* a retry that keeps the Authorization header of the first attempt
RetryAuthorization_Keep(req, newToken) == req.authorization

\* the Authorization header of the retried request
RetryAuthorization(req, newToken) == newToken

\* the fulfilled / rejected action of refreshToken is reduced and
\* 'await store.dispatch(refreshToken())' returns (the promise of a dispatched
\* thunk never rejects, so the catch block with dispatch(logout()) is not
\* entered): with an access token in the state the request is retried, without
\* one the error goes to the caller
RefreshSettle(r) ==
  /\ reqs[r].pc = "refreshed"
  /\ LET s == IF reqs[r].outcome = "fulfilled"
              THEN refreshToken_fulfilled(draft, reqs[r].payload)
              ELSE refreshToken_rejected(draft, reqs[r].err)
         newToken == s.accessToken
     IN /\ draft' = s
        /\ reqs' = [reqs EXCEPT ![r] =
             IF Truthy(newToken)
             THEN [@ EXCEPT !.pc = "retried", !.sends = @ + 1,
                            !.authorization = RetryAuthorization(reqs[r], newToken),
                            !.obtained = reqs[r].payload.accessToken]
             ELSE [@ EXCEPT !.pc = "done", !.result = "failed"]]
  /\ UNCHANGED <<draftStore, exit, logouts, vars, regVars, storageVars,
               navVars, usersVars>>

\* AuthContext.logout: dispatch(logout()); the thunk revokes the access token
\* if the state has one
logout ==
  /\ exit.pc = "idle"
  /\ logouts < MaxLogouts
  /\ logouts' = logouts + 1
  /\ draft' = logout_pending(draft)
  /\ exit' = IF Truthy(draft.accessToken)
             THEN [NoLogout EXCEPT !.pc = "revoke"]
             ELSE [NoLogout EXCEPT !.pc = "delete", !.idx = 1]
  /\ UNCHANGED <<draftStore, reqs, vars, regVars, storageVars,
               navVars, usersVars>>

\* logout: revoke resolves or rejects; the thunk goes on either way
RevokeResponse ==
  /\ exit.pc = "revoke"
  /\ exit' = [exit EXCEPT !.pc = "delete", !.idx = 1]
  /\ UNCHANGED <<draft, draftStore, reqs, logouts, vars, regVars, storageVars,
               navVars, usersVars>>

\* logout: the removeItem calls, in order
DraftRemoveItemCalls == <<ACCESS_TOKEN_KEY, REFRESH_TOKEN_KEY, USER_INFO_KEY>>

\* logout: a removeItem resolves
DraftRemoveItem ==
  /\ exit.pc = "delete"
  /\ draftStore' = [draftStore EXCEPT ![DraftRemoveItemCalls[exit.idx]] = Null]
  /\ exit' = IF exit.idx < Len(DraftRemoveItemCalls)
             THEN [exit EXCEPT !.idx = @ + 1]
             ELSE [exit EXCEPT !.pc = "settle", !.idx = 0,
                               !.outcome = "fulfilled"]
  /\ UNCHANGED <<draft, reqs, logouts, vars, regVars, storageVars,
               navVars, usersVars>>

\* logout: a removeItem rejects
DraftRemoveItemFails ==
  /\ exit.pc = "delete"
  /\ exit' = [exit EXCEPT !.pc = "settle", !.idx = 0, !.outcome = "rejected"]
  /\ UNCHANGED <<draft, draftStore, reqs, logouts, vars, regVars, storageVars,
               navVars, usersVars>>

\* the fulfilled / rejected action of logout is reduced
LogoutSettle ==
  /\ exit.pc = "settle"
  /\ draft' = IF exit.outcome = "fulfilled" THEN logout_fulfilled(draft)
              ELSE logout_rejected(draft)
  /\ exit' = NoLogout
  /\ UNCHANGED <<draftStore, reqs, logouts, vars, regVars, storageVars,
               navVars, usersVars>>

HttpNext ==
  \/ \E r \in Requests : HttpRequest(r)
  \/ \E r \in Requests : HttpResponse(r)
  \/ \E r \in Requests : TokenResponse(r)
  \/ \E r \in Requests : UserInfoResponse(r)
  \/ \E r \in Requests : DraftSetItem(r)
  \/ \E r \in Requests : DraftSetItemFails(r)
  \/ \E r \in Requests : RefreshSettle(r)
  \/ logout
  \/ RevokeResponse
  \/ DraftRemoveItem
  \/ DraftRemoveItemFails
  \/ LogoutSettle

HttpOnly ==
  /\ SessionIdle
  /\ RegistryInit
  /\ StorageInit("ios")
  /\ NavInit("/")
  /\ UsersInit
  /\ \E s \in DraftStates : HttpInit(s)

\* the api instance with the draft's authSlice
HttpSpec == HttpOnly /\ [][HttpNext]_<<vars, outside>>

(* ---------------- AuthWrapper: the route guard of the OAuth draft ---------------- *)
\* the number of router.replace calls in a row
MaxRedirects == 3

\* reducers of the draft's authSlice for login and checkAuth
login_pending(s) == [s EXCEPT !.isLoading = TRUE, !.error = Null]
login_fulfilled(s, payload) ==
  [s EXCEPT !.isLoading = FALSE, !.isAuthenticated = TRUE,
            !.accessToken = payload.accessToken,
            !.refreshToken = payload.refreshToken, !.user = payload.user]
login_rejected(s, payload) == [s EXCEPT !.isLoading = FALSE, !.error = payload]
draft_checkAuth_pending(s) == [s EXCEPT !.isLoading = TRUE]
draft_checkAuth_fulfilled(s, payload) ==
  [s EXCEPT !.isLoading = FALSE, !.isAuthenticated = TRUE,
            !.accessToken = payload.accessToken,
            !.refreshToken = payload.refreshToken, !.user = payload.user]
draft_checkAuth_rejected(s) ==
  [s EXCEPT !.isLoading = FALSE, !.isAuthenticated = FALSE,
            !.accessToken = Null, !.refreshToken = Null, !.user = Null]

\* the payload of a fulfilled login / refreshToken / checkAuth
TokenPayload == [accessToken |-> "A0", refreshToken |-> "R0", user |-> "u"]

\* the AuthStates one action of the draft's thunks leads to from s
AuthReductions(s) ==
  { login_pending(s), login_fulfilled(s, TokenPayload),
    login_rejected(s, "Login failed"),
    refreshToken_pending(s), refreshToken_fulfilled(s, TokenPayload),
    refreshToken_rejected(s, "Token refresh failed"),
    logout_pending(s), logout_fulfilled(s), logout_rejected(s),
    draft_checkAuth_pending(s), draft_checkAuth_fulfilled(s, TokenPayload),
    draft_checkAuth_rejected(s) }

\* the dependency array of AuthWrapper's effect
Deps ==
  [isAuthenticated |-> draft.isAuthenticated,
   segments |-> useSegments(pathname),
   isLoading |-> draft.isLoading]

\* a guard that does not wait for isLoading
Guard_WhileLoading(d) ==
  LET inAuthGroup == d.segments[1] = "(auth)"
  IN IF ~d.isAuthenticated /\ ~inAuthGroup THEN "/login"
     ELSE IF d.isAuthenticated /\ inAuthGroup THEN "/"
     ELSE Null

\* a guard that sends the signed-in user to the login route
Guard_HomeIsLogin(d) ==
  IF d.isLoading THEN Null
  ELSE LET inAuthGroup == d.segments[1] = "(auth)"
       IN IF ~d.isAuthenticated /\ ~inAuthGroup THEN "/login"
          ELSE IF d.isAuthenticated /\ ~inAuthGroup THEN "/login"
          ELSE IF d.isAuthenticated /\ inAuthGroup THEN "/"
          ELSE Null

\* the body of the effect: the route it replaces the current one with, or
\* Null when it calls nothing
Guard(d) ==
  IF d.isLoading THEN Null
  ELSE LET inAuthGroup == d.segments[1] = "(auth)"
       IN IF ~d.isAuthenticated /\ ~inAuthGroup THEN "/login"
          ELSE IF d.isAuthenticated /\ inAuthGroup THEN "/"
          ELSE Null

\* React runs the effect after mount and after a render in which one of its
\* dependencies changed
AuthWrapper_effect ==
  /\ Deps # seen
  /\ redirects < MaxRedirects
  /\ seen' = Deps
  /\ LET to == Guard(Deps)
     IN /\ pathname' = IF to = Null THEN pathname ELSE to
        /\ redirects' = IF to = Null THEN redirects ELSE redirects + 1
  /\ UNCHANGED <<httpVars, vars, regVars, storageVars, usersVars>>

\* React has run the effect of the last render: the effects of a render are
\* flushed before the next change of route or AuthState is rendered
Flushed == Deps = seen

\* the user follows a link, or a deep link opens a route
Navigate ==
  /\ Flushed
  /\ \E path \in Paths \ {pathname} : pathname' = path
  /\ redirects' = 0
  /\ UNCHANGED <<seen, httpVars, vars, regVars, storageVars, usersVars>>

\* an action of login, refreshToken, logout or checkAuth is reduced
AuthStateChanges ==
  /\ Flushed
  /\ \E s \in AuthReductions(draft) \ {draft} : draft' = s
  /\ redirects' = 0
  /\ UNCHANGED <<pathname, seen, draftStore, reqs, exit, logouts, vars,
                 regVars, storageVars, usersVars>>

NavNext ==
  \/ AuthWrapper_effect
  \/ Navigate
  \/ AuthStateChanges

\* RootLayout mounted on any route, the AuthState as redux-persist restored it
NavOnly ==
  /\ SessionIdle
  /\ RegistryInit
  /\ StorageInit("ios")
  /\ UsersInit
  /\ \E s \in DraftStates : HttpInit(s)
  /\ \E path \in Paths : NavInit(path)

NavSpec == NavOnly /\ [][NavNext]_<<vars, outside>>

(* ---------------- usersSlice ---------------- *)
\* the longest users list
MaxUsers == 3

\* User records: two ids, and two names to tell records of one id apart (the
\* email goes with the name)
UserRecords == [id : {"1", "2"}, name : {"a", "b"}]

\* the lists /users/find_all answers with
UserLists ==
  {<<>>} \cup {<<u>> : u \in UserRecords}
         \cup {<<u, v>> : u \in UserRecords, v \in UserRecords}

\* action.error.message of a rejected thunk
ErrorMessages == {Null, "Network Error"}

\* Array.prototype.findIndex for (u) => u.id === id, counted from 1; 0 for -1
findIndex(list, id) ==
  IF \E i \in 1..Len(list) : list[i].id = id
  THEN CHOOSE i \in 1..Len(list) :
         /\ list[i].id = id
         /\ \A j \in 1..(i - 1) : list[j].id # id
  ELSE 0

\* Array.prototype.filter for (u) => u.id !== id
filter(list, id) ==
  LET Keep(u) == u.id # id
  IN SelectSeq(list, Keep)

findAllUsers_pending(s) ==
  [s EXCEPT !.loading = TRUE, !.error = FALSE, !.message = Null]
findAllUsers_fulfilled(s, payload) ==
  [s EXCEPT !.loading = FALSE, !.list = payload, !.success = TRUE]
findAllUsers_rejected(s, message) ==
  [s EXCEPT !.loading = FALSE, !.error = TRUE,
            !.message = IF Truthy(message) THEN message
                        ELSE "Erro ao buscar usuarios."]

findOneUser_pending(s) ==
  [s EXCEPT !.loading = TRUE, !.error = FALSE, !.message = Null]
findOneUser_fulfilled(s, payload) ==
  [s EXCEPT !.loading = FALSE, !.currentUser = payload, !.success = TRUE]
findOneUser_rejected(s, message) ==
  [s EXCEPT !.loading = FALSE, !.error = TRUE,
            !.message = IF Truthy(message) THEN message
                        ELSE "Erro ao buscar usuario."]

createOneUser_fulfilled(s, payload) ==
  [s EXCEPT !.list = Append(@, payload), !.success = TRUE]

\* an updateOneUser.fulfilled that replaces every entry of the payload's id
updateOneUser_fulfilled_All(s, payload) ==
  [s EXCEPT !.list = [i \in 1..Len(@) |->
                        IF @[i].id = payload.id THEN payload ELSE @[i]],
            !.success = TRUE]

updateOneUser_fulfilled(s, payload) ==
  LET index == findIndex(s.list, payload.id)
  IN [s EXCEPT !.list = IF index # 0 THEN [@ EXCEPT ![index] = payload] ELSE @,
               !.success = TRUE]

\* a removeOneUser.fulfilled that removes the first entry of the id only
removeOneUser_fulfilled_First(s, id) ==
  LET index == findIndex(s.list, id)
  IN [s EXCEPT !.list = IF index = 0 THEN @
                        ELSE SubSeq(@, 1, index - 1)
                             \o SubSeq(@, index + 1, Len(@)),
               !.success = TRUE]

removeOneUser_fulfilled(s, id) ==
  [s EXCEPT !.list = filter(@, id), !.success = TRUE]

\* an action reaches usersSlice: the state it leaves and what is recorded of it
Reduce(next, type, user, id) ==
  /\ users' = next
  /\ usersLast' = [type |-> type, user |-> user, id |-> id]
  /\ UNCHANGED <<vars, regVars, storageVars, httpVars, navVars>>

\* one case of extraReducers runs on a dispatched action
UsersNext ==
  \/ Reduce(findAllUsers_pending(users), "findAllUsers.pending", NoUser, Null)
  \/ \E payload \in UserLists :
       Reduce(findAllUsers_fulfilled(users, payload),
              "findAllUsers.fulfilled", NoUser, Null)
  \/ \E message \in ErrorMessages :
       Reduce(findAllUsers_rejected(users, message),
              "findAllUsers.rejected", NoUser, Null)
  \/ Reduce(findOneUser_pending(users), "findOneUser.pending", NoUser, Null)
  \/ \E payload \in UserRecords :
       Reduce(findOneUser_fulfilled(users, payload),
              "findOneUser.fulfilled", payload, Null)
  \/ \E message \in ErrorMessages :
       Reduce(findOneUser_rejected(users, message),
              "findOneUser.rejected", NoUser, Null)
  \/ /\ Len(users.list) < MaxUsers
     /\ \E payload \in UserRecords :
          Reduce(createOneUser_fulfilled(users, payload),
                 "createOneUser.fulfilled", payload, Null)
  \/ \E payload \in UserRecords :
       Reduce(updateOneUser_fulfilled(users, payload),
              "updateOneUser.fulfilled", payload, Null)
  \/ \E id \in {"1", "2", "3"} :
       Reduce(removeOneUser_fulfilled(users, id),
              "removeOneUser.fulfilled", NoUser, id)

\* the store as configureStore builds it
UsersOnly ==
  /\ SessionIdle
  /\ RegistryInit
  /\ StorageInit("ios")
  /\ HttpInit(draftInitialState)
  /\ NavInit("/")
  /\ UsersInit

UsersSpec == UsersOnly /\ [][UsersNext]_<<vars, outside>>

TypeOK ==
  /\ auth.isAuthenticated \in BOOLEAN
  /\ auth.isLoading \in BOOLEAN
  /\ ops \in 0..MaxOps
  /\ faults \in 0..MaxFaults
  /\ \A t \in Tasks : tasks[t].kind \in Kinds \cup {"none"}

(* ---------------- properties ---------------- *)
StoreEmpty == \A k \in Keys : store[k] = Null

\* the store holds exactly the session s of provider providerId
StoreHolds(st, s, providerId) ==
  /\ st[ACCESS_TOKEN_KEY] = s.accessToken
  /\ st[REFRESH_TOKEN_KEY] =
       IF Truthy(s.refreshToken) THEN s.refreshToken ELSE Null
  /\ st[USER_KEY] = JSON_stringify(s.user)
  /\ st[PROVIDER_ID_KEY] = providerId

\* this step is the fulfilled / rejected action of top-level thunk t
Settles(t) ==
  /\ tasks[t].pc = "settle"
  /\ ~tasks[t].inner
  /\ tasks'[t].pc = "idle"
  /\ ops' = ops

\* no other thunk was in flight at any time of this one's flight
Alone(task) == task.over = {} /\ task.newer = {}

SignThunks == {"signIn", "signUp"}

\* C1: a signIn / signUp invoked while an earlier signIn / signUp is in flight
\* is rejected with OperationInProgress before it calls a provider or writes
\* the store.
C1_SingleFlightSignIn ==
  \A t \in Tasks :
    (/\ tasks[t].pc # "idle"
     /\ tasks[t].kind \in SignThunks
     /\ tasks[t].over \cap SignThunks # {})
    => /\ tasks[t].pc = "settle"
       /\ tasks[t].outcome = "rejected"
       /\ tasks[t].err = "OperationInProgress"

\* this step makes AuthState authenticated with the session of thunk t
Publishes(t) ==
  /\ tasks[t].pc = "settle"
  /\ tasks'[t] # tasks[t]
  /\ ops' = ops
  /\ Thunk(tasks[t]) \in SignThunks \cup {"refreshSession"}
  /\ tasks[t].session # NullSession
  /\ auth'.isAuthenticated
  /\ auth'.session = tasks[t].session

\* the setItem calls of the thunk for its session have all completed
Persisted(task, withProviderId) ==
  /\ task.wrote[ACCESS_TOKEN_KEY] = task.session.accessToken
  /\ Truthy(task.session.refreshToken)
       => task.wrote[REFRESH_TOKEN_KEY] = task.session.refreshToken
  /\ task.wrote[USER_KEY] = JSON_stringify(task.session.user)
  /\ withProviderId => task.wrote[PROVIDER_ID_KEY] = task.ppid

\* C2 (as amended): whenever a signIn, signUp or refreshSession makes AuthState
\* authenticated with its session, that thunk has already completed the
\* writes of the access token, the refresh token (if present) and the
\* serialized user, and, for signIn and signUp, of the provider id;
\* refreshSession writes no provider id.
C2_PersistBeforePublish ==
  [][\A t \in Tasks :
       Publishes(t)
       => Persisted(tasks[t], Thunk(tasks[t]) \in SignThunks)]_vars

\* C2 witness: a refreshSession has just published its session, and the store
\* holds that session's access token and user
C2_Witness ==
  /\ Last("refreshSession", "fulfilled")
  /\ InFlight = {}
  /\ auth.isAuthenticated
  /\ store[ACCESS_TOKEN_KEY] = auth.session.accessToken
  /\ store[USER_KEY] = JSON_stringify(auth.session.user)

\* C2 (as claimed): whenever a signIn, signUp or refreshSession makes AuthState
\* authenticated with its session, that thunk has already completed the
\* writes of the access token, the refresh token (if present), the serialized
\* user and the provider id.
C2_AsClaimed ==
  [][\A t \in Tasks : Publishes(t) => Persisted(tasks[t], TRUE)]_vars

\* C3: a signOut whose provider.signOut() call rejected still ends with
\* AuthState unauthenticated and with all four keys absent from the store.
C3_SignOutFailingProvider ==
  [][\A t \in Tasks :
       (/\ Settles(t)
        /\ tasks[t].kind = "signOut"
        /\ tasks[t].err = "Sign out failed")
       => /\ ~auth'.isAuthenticated
          /\ auth'.session = NullSession
          /\ StoreEmpty']_vars

\* C4: in the teardown of signOut and of a failed checkAuth, when the removal
\* of one key fails, the removal of every other key is still attempted, and
\* (no other thunk being in flight) every key whose removal did not fail is
\* absent afterwards.
C4_TeardownNoShortCircuit ==
  [][\A t \in Tasks :
       (/\ Settles(t)
        /\ tasks[t].kind \in {"signOut", "checkAuth"}
        /\ tasks[t].failed # {})
       => /\ tasks[t].tried = Keys
          /\ Alone(tasks[t])
               => \A k \in Keys \ tasks[t].failed : store'[k] = Null]_vars

\* C5: a signIn that the provider accepts, with no other thunk in flight and
\* no storage failure, ends
\* authenticated with the returned session, and the store holds exactly that
\* session: access token, serialized user, provider id, and the refresh
\* token, which is absent when the session has none, whatever the store held
\* before.
C5_SignInStoreConsistent ==
  [][\A t \in Tasks :
       (/\ Settles(t)
        /\ tasks[t].kind = "signIn"
        /\ tasks[t].outcome = "fulfilled"
        /\ Alone(tasks[t])
        /\ faults = 0)
       => /\ auth'.isAuthenticated
          /\ auth'.session = tasks[t].session
          /\ StoreHolds(store', tasks[t].session, tasks[t].arg)]_vars

\* C6: checkAuth run right after a successful signIn of the same process (no
\* other thunk in flight, no storage failure, the session not expired, the
\* store holding exactly the keys of that session) leaves
\* AuthState with the same session (tokens, expiresAt, user) and the same
\* provider id.
C6_RestoreRoundTrip ==
  [][\A t \in Tasks :
       (/\ Settles(t)
        /\ tasks[t].kind = "checkAuth"
        /\ Alone(tasks[t])
        /\ faults = 0
        /\ Last("signIn", "fulfilled")
        /\ auth.isAuthenticated
        /\ StoreHolds(store, auth.session, auth.providerId)
        /\ ~isTokenExpired(auth.session.expiresAt))
       => /\ auth'.isAuthenticated
          /\ auth'.session = auth.session
          /\ auth'.providerId = auth.providerId]_vars

\* the checkAuth task went through a dispatched refreshSession
Refreshed(task) ==
  \/ task.wrote[ACCESS_TOKEN_KEY] # Null
  \/ task.err = "Authentication check failed"

\* C7: checkAuth run on the session of a signIn that returned an expiresAt in
\* the past and a refresh token, the provider supporting refresh, goes through
\* refreshSession, and when the provider's refresh succeeds it ends
\* authenticated with the new access token, which is also the stored one.
C7_RestoreExpiredRefreshes ==
  [][\A t \in Tasks :
       (/\ Settles(t)
        /\ tasks[t].kind = "checkAuth"
        /\ Alone(tasks[t])
        /\ faults = 0
        /\ Last("signIn", "fulfilled")
        /\ auth.isAuthenticated
        /\ isTokenExpired(auth.session.expiresAt)
        /\ Truthy(auth.session.refreshToken)
        /\ HasRefresh(auth.providerId))
       => /\ Refreshed(tasks[t])
          /\ tasks[t].outcome = "fulfilled"
               => /\ auth'.isAuthenticated
                  /\ auth'.session.accessToken
                       = tasks[t].wrote[ACCESS_TOKEN_KEY]
                  /\ store'[ACCESS_TOKEN_KEY]
                       = tasks[t].wrote[ACCESS_TOKEN_KEY]]_vars

\* C8: a refreshSession of the current session that fails (no other thunk in
\* flight, no storage failure) leaves AuthState unauthenticated with no
\* session and the four keys cleared.
C8_RefreshFailureTearsDown ==
  [][\A t \in Tasks :
       (/\ Settles(t)
        /\ tasks[t].kind = "refreshSession"
        /\ tasks[t].outcome = "rejected"
        /\ Alone(tasks[t])
        /\ auth.isAuthenticated
        /\ faults = 0)
       => /\ ~auth'.isAuthenticated
          /\ auth'.session = NullSession
          /\ StoreEmpty']_vars

\* C9: a refreshSession invoked while another refreshSession is in flight is
\* rejected with OperationInProgress before it reads the store or calls the
\* provider.
C9_SingleFlightRefresh ==
  \A t \in Tasks :
    (/\ tasks[t].pc # "idle"
     /\ Thunk(tasks[t]) = "refreshSession"
     /\ "refreshSession" \in tasks[t].over)
    => /\ tasks[t].pc = "settle"
       /\ tasks[t].outcome = "rejected"
       /\ tasks[t].err = "OperationInProgress"

\* C10: when signOut is invoked while a signIn is in flight (no storage
\* failure, no third thunk), then once both have settled AuthState is
\* unauthenticated and the store holds none of the four keys.
C10_SignOutDuringSignIn ==
  [][\A t \in Tasks :
       (/\ Settles(t)
        /\ InFlight = {t}
        /\ faults = 0
        /\ \/ /\ tasks[t].kind = "signOut"
              /\ tasks[t].over = {"signIn"}
              /\ tasks[t].newer = {}
           \/ /\ tasks[t].kind = "signIn"
              /\ tasks[t].over = {}
              /\ tasks[t].newer = {"signOut"})
       => /\ ~auth'.isAuthenticated
          /\ StoreEmpty']_vars

\* C11: whenever no thunk is in flight (a signIn, signUp, signOut or checkAuth
\* of this process having brought store and AuthState in step, and no storage
\* call having failed),
\* either AuthState is authenticated and the store holds exactly its session
\* (access token, user, provider id, and the session's refresh token), or
\* AuthState is unauthenticated and all four keys are absent.
C11_KeysOneUnit ==
  (InFlight = {} /\ last.synced /\ faults = 0)
  => \/ /\ auth.isAuthenticated
        /\ StoreHolds(store, auth.session, auth.providerId)
     \/ /\ ~auth.isAuthenticated
        /\ StoreEmpty

\* C12: a signIn or signUp that fails (no other thunk being in flight) leaves
\* AuthState unauthenticated, with no session and a non-empty error, whatever
\* the state was before.
C12_FailedSignInUnauthenticated ==
  [][\A t \in Tasks :
       (/\ Settles(t)
        /\ tasks[t].kind \in SignThunks
        /\ tasks[t].outcome = "rejected"
        /\ Alone(tasks[t]))
       => /\ ~auth'.isAuthenticated
          /\ auth'.session = NullSession
          /\ Truthy(auth'.error)]_vars

\* C15: in every reachable state isAuthenticated is true exactly when the
\* session is non-null, and the provider id is non-null exactly when the
\* session is non-null.
C15_SessionIffAuthenticated ==
  /\ auth.isAuthenticated <=> auth.session # NullSession
  /\ auth.providerId # Null <=> auth.session # NullSession

\* C15 witness: a signOut was rejected after a session had been published, with
\* another thunk still in flight
C15_Witness ==
  /\ Last("signOut", "rejected")
  /\ InFlight # {}
  /\ ~auth.isAuthenticated
  /\ auth.session = NullSession
  /\ store[ACCESS_TOKEN_KEY] # Null


\* C13: provided every provider call and every storage call eventually
\* returns or fails, every thunk in flight eventually leaves flight, and
\* whenever no thunk is in flight the loading flag is off.
C13_NoOperationStuck ==
  /\ \A t \in Tasks : (tasks[t].pc # "idle") ~> (tasks[t].pc = "idle")
  /\ [](InFlight = {} => ~auth.isLoading)

\* C13 witness: a checkAuth whose storage call failed has settled, nothing is
\* in flight and the loading flag is off
C13_Witness ==
  /\ Last("checkAuth", "rejected")
  /\ faults > 0
  /\ InFlight = {}
  /\ ~auth.isLoading


\* the registered providers that have no signUp method
NoSignUpProviders == {"google", "custom"}

\* C17: a signUp against a registered provider without signUp is rejected with
\* the unsupported-operation error before any provider call or storage write,
\* and the reduction of its result changes neither the store nor the
\* authentication status (an unauthenticated AuthState stays unauthenticated).
C17_SignUpUnsupported ==
  [][\A t \in Tasks :
       (/\ tasks[t].pc # "idle"
        /\ tasks[t].kind = "signUp"
        /\ tasks[t].arg \in NoSignUpProviders)
       => /\ tasks[t].pc = "settle"
          /\ tasks[t].outcome = "rejected"
          /\ tasks[t].err = "Provider does not support sign up"
          /\ tasks[t].wrote = NoKeys
          /\ Settles(t)
               => /\ auth'.isAuthenticated = auth.isAuthenticated
                  /\ auth'.session = auth.session
                  /\ auth'.error = "Provider does not support sign up"
                  /\ store' = store]_vars

\* C17 witness: a signUp against GoogleProvider has thrown, AuthState being
\* unauthenticated and the store empty
C17_Witness ==
  /\ \E t \in Tasks :
       /\ tasks[t].kind = "signUp"
       /\ tasks[t].arg = "google"
       /\ tasks[t].pc = "settle"
  /\ ~auth.isAuthenticated
  /\ StoreEmpty


\* C18: a refreshSession on the expired session of a provider without refresh
\* (no other thunk in flight, no storage failure) ends unauthenticated with
\* all four keys absent, and a refreshSession right after one that ended so
\* ends in the same state.
C18_RefreshWithoutCapability ==
  [][\A t \in Tasks :
       (/\ Settles(t)
        /\ tasks[t].kind = "refreshSession"
        /\ Alone(tasks[t])
        /\ faults = 0
        /\ \/ /\ auth.isAuthenticated
              /\ isTokenExpired(auth.session.expiresAt)
              /\ getProvider(auth.providerId) # Null
              /\ ~HasRefresh(getProvider(auth.providerId))
           \/ /\ Last("refreshSession", "rejected")
              /\ ~auth.isAuthenticated
              /\ StoreEmpty)
       => /\ ~auth'.isAuthenticated
          /\ auth'.session = NullSession
          /\ StoreEmpty']_vars


\* C19: checkAuth run on the session of a signIn that returned an expiresAt in
\* the past, when that session cannot be refreshed (it has no refresh token,
\* or its provider has no refresh), removes all four keys and ends
\* unauthenticated (no other thunk in flight, no storage failure).
C19_RestoreExpiredNoRefresh ==
  [][\A t \in Tasks :
       (/\ Settles(t)
        /\ tasks[t].kind = "checkAuth"
        /\ Alone(tasks[t])
        /\ faults = 0
        /\ Last("signIn", "fulfilled")
        /\ auth.isAuthenticated
        /\ isTokenExpired(auth.session.expiresAt)
        /\ \/ ~Truthy(auth.session.refreshToken)
           \/ ~HasRefresh(auth.providerId))
       => /\ ~auth'.isAuthenticated
          /\ auth'.session = NullSession
          /\ StoreEmpty']_vars


\* a session with a non-empty access token and a user that has an id
WellFormed(s) == Truthy(s.accessToken) /\ s.user.id # Null

\* C14: in every reachable state the session held in AuthState, if any, has a
\* non-empty access token and a user with an id, a stored access token is
\* non-empty, and a stored user record (that parses) has an id.
C14_SessionWellFormed ==
  /\ auth.session # NullSession => WellFormed(auth.session)
  /\ store[ACCESS_TOKEN_KEY] # Null => Truthy(store[ACCESS_TOKEN_KEY])
  /\ (store[USER_KEY] # Null /\ JSON_parses(store[USER_KEY]))
       => JSON_parse(store[USER_KEY]).id # Null


\* C16: every signOut, fulfilled or rejected, ends with AuthState
\* unauthenticated (no session, no provider id); and a signOut run right after
\* a signOut has settled (no other thunk in flight) changes nothing: the store
\* stays as the first one left it and AuthState ends as it was.
C16_SignOutIdempotent ==
  [][\A t \in Tasks :
       (tasks[t].pc # "idle" /\ tasks[t].kind = "signOut")
       => /\ Settles(t)
               => /\ ~auth'.isAuthenticated
                  /\ auth'.session = NullSession
                  /\ auth'.providerId = Null
          /\ (last.kind = "signOut" /\ Alone(tasks[t]))
               => /\ store' = store
                  /\ Settles(t) => auth' = [auth EXCEPT !.isLoading = FALSE]]_vars


\* what a checkAuth that is about to read its fourth key will have read
ReadByCheckAuth(task) ==
  [task.rd EXCEPT ![PROVIDER_ID_KEY] = store[PROVIDER_ID_KEY]]

\* the access token, the user record or the provider id is missing, or the
\* user record is not JSON
AbsentOrCorrupt(rd) ==
  \/ ~Truthy(rd[ACCESS_TOKEN_KEY])
  \/ ~Truthy(rd[USER_KEY])
  \/ ~Truthy(rd[PROVIDER_ID_KEY])
  \/ ~JSON_parses(rd[USER_KEY])

\* C20: a checkAuth that reads an absent or corrupt persisted session goes to
\* its catch block, is rejected and leaves AuthState unauthenticated with no
\* session; a checkAuth that reads a persisted session that is present, has a
\* user with an id and carries no expiry in the past is fulfilled and leaves
\* AuthState authenticated with that session and provider id.
C20_RestoreAbsentOrCorrupt ==
  [][\A t \in Tasks :
       (tasks[t].kind = "checkAuth" /\ ~tasks[t].inner /\ ops' = ops)
       => /\ (/\ tasks[t].pc = "read"
              /\ tasks[t].idx = Len(GetItemCalls("checkAuth"))
              /\ tasks'[t].pc # "read"
              /\ faults' = faults)
               => LET rd == ReadByCheckAuth(tasks[t])
                  IN IF AbsentOrCorrupt(rd)
                     THEN tasks'[t].pc = "delete"
                     ELSE (/\ JSON_parse(rd[USER_KEY]).id # Null
                           /\ ~isTokenExpired(JSON_parse(rd[USER_KEY]).expiresAt))
                          => /\ tasks'[t].pc = "settle"
                             /\ tasks'[t].outcome = "fulfilled"
                             /\ tasks'[t].session.accessToken
                                  = rd[ACCESS_TOKEN_KEY]
                             /\ tasks'[t].session.refreshToken
                                  = rd[REFRESH_TOKEN_KEY]
                             /\ tasks'[t].session.user
                                  = JSON_parse(rd[USER_KEY])
                             /\ tasks'[t].ppid = rd[PROVIDER_ID_KEY]
          /\ tasks[t].pc = "delete"
               => \/ tasks'[t].pc = "delete"
                  \/ tasks'[t].pc = "settle" /\ tasks'[t].outcome = "rejected"
          /\ (Settles(t) /\ tasks[t].outcome = "rejected")
               => /\ ~auth'.isAuthenticated
                  /\ auth'.session = NullSession
          /\ (Settles(t) /\ tasks[t].outcome = "fulfilled")
               => /\ auth'.isAuthenticated
                  /\ auth'.session = tasks[t].session
                  /\ auth'.providerId = tasks[t].ppid]_vars

\* C20 witness: a checkAuth that read a user record that is not JSON has been
\* rejected and reduced: AuthState is unauthenticated, the store cleared
C20_Witness ==
  /\ \E t \in Tasks :
       /\ tasks[t].kind = "checkAuth"
       /\ tasks[t].pc = "settle"
       /\ tasks[t].outcome = "rejected"
       /\ tasks[t].err = "Unexpected token in JSON"
  /\ ~auth.isAuthenticated
  /\ StoreEmpty


\* this step reduces the fulfilled / rejected action of the thunk task t runs
\* (a top-level thunk, or the refreshSession that checkAuth dispatched)
Reduces(t) ==
  /\ tasks[t].pc = "settle"
  /\ tasks'[t] # tasks[t]
  /\ ops' = ops

\* this step is the start of a new process
Restarts == ops' # ops /\ \A t \in Tasks : tasks'[t].pc = "idle"

\* the thunks whose failure is to be surfaced in AuthState.error
SurfacingThunks == {"signIn", "signUp", "refreshSession"}

\* C21: when the rejected action of a signIn, a signUp or a refreshSession
\* (dispatched on its own or by checkAuth during restore) is reduced,
\* AuthState.error becomes the non-empty message of that failure.
C21_FailureSurfacesError ==
  [][\A t \in Tasks :
       (/\ Reduces(t)
        /\ tasks[t].outcome = "rejected"
        /\ Thunk(tasks[t]) \in SurfacingThunks)
       => /\ Truthy(auth'.error)
          /\ auth'.error = tasks[t].err]_vars


\* the thunks whose success is a transition that leaves error empty
ClearingThunks == {"signIn", "signUp", "refreshSession", "checkAuth"}

\* C22: within one process a non-empty AuthState.error becomes empty only by
\* the clearError action or by the reduction of a fulfilled signIn, signUp,
\* refreshSession or checkAuth; and every such reduction leaves error empty.
C22_ErrorClearedOnlyExplicitly ==
  [][/\ (Truthy(auth.error) /\ ~Truthy(auth'.error) /\ ~Restarts)
          => \/ auth' = clearError(auth) /\ tasks' = tasks
             \/ \E t \in Tasks :
                  /\ Reduces(t)
                  /\ tasks[t].outcome = "fulfilled"
                  /\ Thunk(tasks[t]) \in ClearingThunks
     /\ \A t \in Tasks :
          (/\ Reduces(t)
           /\ tasks[t].outcome = "fulfilled"
           /\ Thunk(tasks[t]) \in ClearingThunks)
          => ~Truthy(auth'.error)]_vars


\* C27: a signIn or signUp with a provider id that is not registered is
\* rejected with the provider-not-found message before any provider call or
\* storage write, and the reduction of its result (no other thunk having been
\* in flight) leaves the store as it was and AuthState without a session.
C27_UnknownProviderRejected ==
  [][\A t \in Tasks :
       (/\ tasks[t].pc # "idle"
        /\ tasks[t].kind \in SignThunks
        /\ getProvider(tasks[t].arg) = Null)
       => /\ tasks[t].pc = "settle"
          /\ tasks[t].outcome = "rejected"
          /\ tasks[t].err = "Provider not found"
          /\ tasks[t].wrote = NoKeys
          /\ (Settles(t) /\ Alone(tasks[t]))
               => /\ store' = store
                  /\ auth'.session = NullSession
                  /\ auth'.error = "Provider not found"]_vars


\* the enabled provider passed last under id in the calls cs, undefined if
\* there is none
RECURSIVE LastEnabled(_, _)
LastEnabled(cs, id) ==
  IF cs = <<>> THEN NoProvider
  ELSE LET provider == cs[Len(cs)]
       IN IF provider.id = id /\ provider.enabled THEN provider
          ELSE LastEnabled(SubSeq(cs, 1, Len(cs) - 1), id)

\* the ids passed with an enabled provider in the calls cs, each once, in the
\* order of their first such call
RECURSIVE FirstRegistrations(_)
FirstRegistrations(cs) ==
  IF cs = <<>> THEN <<>>
  ELSE LET before == FirstRegistrations(SubSeq(cs, 1, Len(cs) - 1))
           provider == cs[Len(cs)]
       IN IF /\ provider.enabled
             /\ \A i \in 1..Len(before) : before[i] # provider.id
          THEN Append(before, provider.id)
          ELSE before

\* the ids getProvider is asked for: the ids in use and one never registered
LookupIds == RegistryIds \cup {"unknown"}

\* C28: after any sequence of registerProvider calls no provider with enabled
\* false is returned by getProvider or listed by getAllProviders, and a
\* registerProvider call with a disabled provider leaves the registry as it
\* was.
C28_DisabledNeverRegistered ==
  /\ [](\A id \in LookupIds :
          Registry_getProvider(id) # NoProvider
            => Registry_getProvider(id).enabled)
  /\ [](\A i \in 1..Len(getAllProviders) : getAllProviders[i].enabled)
  /\ [][(regCalls' # regCalls /\ ~regCalls'[Len(regCalls')].enabled)
          => providers' = providers]_regVars

\* C28 witness: the last call passed a disabled provider under an id that an
\* earlier call had registered
C28_Witness ==
  /\ Len(regCalls) >= 2
  /\ ~regCalls[Len(regCalls)].enabled
  /\ Map_has(providers, regCalls[Len(regCalls)].id)


\* C29: after any sequence of registerProvider calls getProvider(id) returns
\* the enabled provider passed last under exactly that id, and undefined when
\* no enabled provider was passed under it.
C29_ResolveLastWriteWins ==
  \A id \in LookupIds : Registry_getProvider(id) = LastEnabled(regCalls, id)

\* C29 witness: two enabled providers with different names were registered
\* under "google" and one under "Google"
C29_Witness ==
  /\ Len(regCalls) = 3
  /\ \A i \in 1..3 : regCalls[i].enabled
  /\ regCalls[1].id = "google" /\ regCalls[1].name = "n1"
  /\ regCalls[2].id = "Google" /\ regCalls[2].name = "n1"
  /\ regCalls[3].id = "google" /\ regCalls[3].name = "n2"
  /\ Registry_getProvider("google").name = "n2"
  /\ Registry_getProvider("Google").name = "n1"


\* C30: after any sequence of registerProvider calls the ids of
\* getAllProviders are the ids registered with an enabled provider, each once,
\* in the order of their first registration.
C30_ListInsertionOrder ==
  availableProviders = FirstRegistrations(regCalls)

\* C30 witness: an id was registered again after another id had been registered
C30_Witness ==
  /\ Len(regCalls) = 3
  /\ \A i \in 1..3 : regCalls[i].enabled
  /\ regCalls[1].id = "credentials"
  /\ regCalls[2].id = "google"
  /\ regCalls[3].id = "credentials" /\ regCalls[3].name # regCalls[1].name
  /\ availableProviders = <<"credentials", "google">>


\* C23: a getItem(k) that resolves after a setItem(k, v) or a removeItem(k)
\* has resolved (no later setItem / removeItem of k having resolved) returns
\* v, respectively null, whichever SecureStore calls have failed in between.
C23_ReadYourWrites ==
  (/\ lastCall.op = "getItem"
   /\ lastCall.ok
   /\ effect[lastCall.key].op # "none")
  => lastCall.result = effect[lastCall.key].value


\* C24: a getItem(k) or removeItem(k) that resolves after a setItem(k, v) has
\* resolved is served by the backend that served that setItem.
C24_DeterministicFallback ==
  (/\ lastCall.op \in {"getItem", "removeItem"}
   /\ lastCall.ok
   /\ effect[lastCall.key].setBy # Null)
  => lastCall.backend = effect[lastCall.key].setBy


C26_RefreshFailureLogsOut ==
  [][\A r \in Requests :
       (/\ reqs[r].pc = "refreshed"
        /\ reqs[r].outcome = "rejected"
        /\ reqs'[r] # reqs[r])
       => /\ logouts' = logouts + 1
          /\ exit'.pc # "idle"
          /\ reqs'[r].result = "failed"]_httpVars


\* the call of a provider method by thunk t returns (with a session, with
\* success false, or by rejecting)
ProviderReturns(t) ==
  /\ tasks[t].pc = "provider"
  /\ tasks'[t].pc \notin {"provider", "idle"}

\* C31: the step in which a provider's signIn, signUp, signOut or
\* refreshSession returns leaves the storage and the AuthState as they were;
\* what the provider hands back is held by the calling thunk only.
C31_ProvidersPure ==
  [][\A t \in Tasks :
       ProviderReturns(t)
       => /\ UNCHANGED <<auth, store>>
          /\ \A u \in Tasks \ {t} : tasks'[u] = tasks[u]]_vars

\* C31 witness: provider.signIn has returned a session to a signIn that is
\* about to make its first setItem call, the storage still empty and the
\* AuthState as signIn.pending left it
C31_Witness ==
  \E t \in Tasks :
    /\ tasks[t].kind = "signIn"
    /\ tasks[t].pc = "write"
    /\ tasks[t].idx = 1
    /\ tasks[t].session.accessToken = "T1"
    /\ store = NoKeys
    /\ auth = signIn_pending(initialState)


\* checkAuth task t is the only thunk since the process started, and no
\* storage call has failed
AtStartup(t) ==
  /\ tasks[t].kind = "checkAuth"
  /\ Alone(tasks[t])
  /\ last = NoThunk
  /\ faults = 0
  /\ faults' = faults
  /\ ops' = ops

\* C32: a refreshSession dispatched by the checkAuth of a process start (the
\* AuthState without provider id; the provider id of a provider with refresh
\* and a refresh token in the storage) goes on, once it has read the refresh
\* token, to call the refresh of the stored provider with the stored refresh
\* token; and a checkAuth whose refreshSession wrote the new session ends
\* authenticated with the storage still holding that session's access token.
C32_DelegatedRefreshAtStart ==
  [][\A t \in Tasks :
       /\ (/\ AtStartup(t)
           /\ tasks[t].inner
           /\ tasks[t].pc = "read"
           /\ tasks'[t] # tasks[t]
           /\ HasRefresh(getProvider(store[PROVIDER_ID_KEY]))
           /\ Truthy(store[REFRESH_TOKEN_KEY]))
          => /\ tasks'[t].pc = "provider"
             /\ tasks'[t].pid = store[PROVIDER_ID_KEY]
             /\ tasks'[t].rd[REFRESH_TOKEN_KEY] = store[REFRESH_TOKEN_KEY]
       /\ (/\ AtStartup(t)
           /\ Settles(t)
           /\ tasks[t].wrote[ACCESS_TOKEN_KEY] # Null)
          => /\ auth'.isAuthenticated
             /\ auth'.session.accessToken = tasks[t].wrote[ACCESS_TOKEN_KEY]
             /\ store'[ACCESS_TOKEN_KEY] = tasks[t].wrote[ACCESS_TOKEN_KEY]]_vars


\* C33: with checkAuth in flight when signIn is dispatched and no storage
\* failure, whichever of the two settles last leaves the session of a
\* fulfilled signIn in place: the AuthState authenticated with that session,
\* and every key the signIn wrote still in the storage with the value it wrote
\* (a checkAuth that found no stored session included).
C33_RestoreKeepsConcurrentSignIn ==
  [][\A t \in Tasks :
       /\ (/\ Settles(t)
           /\ faults = 0
           /\ tasks[t].kind = "signIn"
           /\ tasks[t].outcome = "fulfilled"
           /\ tasks[t].over = {"checkAuth"}
           /\ tasks[t].newer = {}
           /\ InFlight = {t})
          => /\ auth'.isAuthenticated
             /\ auth'.session = tasks[t].session
             /\ \A k \in Keys :
                  tasks[t].wrote[k] # Null => store'[k] = tasks[t].wrote[k]
       /\ (/\ Settles(t)
           /\ faults = 0
           /\ tasks[t].kind = "checkAuth"
           /\ tasks[t].over = {}
           /\ tasks[t].newer = {"signIn"}
           /\ tasks[t].err = "No active session found"
           /\ Last("signIn", "fulfilled")
           /\ InFlight = {t})
          => /\ auth'.isAuthenticated
             /\ auth'.session = auth.session
             /\ auth'.providerId = auth.providerId
             /\ store'[ACCESS_TOKEN_KEY] = auth.session.accessToken
             /\ store'[USER_KEY] = JSON_stringify(auth.session.user)
             /\ store'[PROVIDER_ID_KEY] = auth.providerId]_vars


\* C34: isLoading is true exactly when a thunk is in flight.
C34_LoadingTracksInFlight ==
  auth.isLoading <=> InFlight # {}


\* checkAuth has taken the session it read for expired: it dispatched
\* refreshSession or threw "Session expired"
TreatsAsExpired(task) ==
  \/ task.inner
  \/ task.err = "Session expired"

\* C35: when checkAuth has read the keys of the session that the last signIn
\* or signUp published (no other thunk in flight, no storage failure), it
\* takes that session for expired exactly when the expiresAt of the session
\* the provider returned is present and the current time is greater than it.
C35_ExpiryOfProviderSession ==
  [][\A t \in Tasks :
       (/\ tasks[t].kind = "checkAuth"
        /\ ~tasks[t].inner
        /\ tasks[t].pc = "read"
        /\ tasks[t].idx = Len(GetItemCalls("checkAuth"))
        /\ tasks'[t] # tasks[t]
        /\ ops' = ops
        /\ faults = 0
        /\ faults' = faults
        /\ Alone(tasks[t])
        /\ \E k \in SignThunks : Last(k, "fulfilled")
        /\ auth.isAuthenticated)
       => (TreatsAsExpired(tasks'[t])
           <=> /\ auth.session.expiresAt # NoExpiry
               /\ Now > auth.session.expiresAt)]_vars


\* this step is a run of AuthWrapper's effect
GuardRuns == seen' # seen

\* C36: a run of the guard with isLoading true leaves the route; a run with
\* isLoading false takes an unauthenticated user outside the auth group to
\* the login route and an authenticated user inside it to the home route;
\* once the guard has run on the current route and AuthState with isLoading
\* false, the unauthenticated user is inside the auth group and the
\* authenticated user outside it; and the guard never replaces the route
\* twice in a row.
C36_NavigationGuard ==
  /\ [][GuardRuns =>
          /\ draft.isLoading => pathname' = pathname
          /\ (/\ ~draft.isLoading
              /\ ~draft.isAuthenticated
              /\ useSegments(pathname)[1] # "(auth)") => pathname' = "/login"
          /\ (/\ ~draft.isLoading
              /\ draft.isAuthenticated
              /\ useSegments(pathname)[1] = "(auth)") => pathname' = "/"]_navVars
  /\ []((seen = Deps /\ ~draft.isLoading)
          => (draft.isAuthenticated <=> useSegments(pathname)[1] # "(auth)"))
  /\ [](redirects <= 1)

\* C36 witness: the guard has sent a signed-in user from the login route to
\* the home route and has run again there without another redirect
C36_Witness ==
  /\ draft.isAuthenticated
  /\ ~draft.isLoading
  /\ pathname = "/"
  /\ seen = Deps
  /\ redirects = 1


\* the entries of list whose id is not id, in their order
RECURSIVE Others(_, _)
Others(list, id) ==
  IF list = <<>> THEN <<>>
  ELSE IF Head(list).id = id THEN Others(Tail(list), id)
  ELSE <<Head(list)>> \o Others(Tail(list), id)

\* the action reduced in this step is of the given type
Reduced(type) == usersLast'.type = type

\* C37: updateOneUser.fulfilled keeps the length of the list, puts the payload
\* in place of the first entry of its id and leaves every other entry (the
\* whole list when no entry has the id); removeOneUser.fulfilled leaves the
\* entries of other ids in their order and no entry of the given id;
\* createOneUser.fulfilled appends the payload; and none of the three changes
\* currentUser, loading, error or message.
C37_UsersListReducers ==
  [][/\ Reduced("updateOneUser.fulfilled")
          => LET payload == usersLast'.user
                 hits == {i \in 1..Len(users.list) :
                            users.list[i].id = payload.id}
             IN /\ Len(users'.list) = Len(users.list)
                /\ \A i \in 1..Len(users.list) :
                     users'.list[i] =
                       IF i \in hits /\ \A j \in hits : i <= j
                       THEN payload ELSE users.list[i]
     /\ Reduced("removeOneUser.fulfilled")
          => /\ users'.list = Others(users.list, usersLast'.id)
             /\ \A i \in 1..Len(users'.list) :
                  users'.list[i].id # usersLast'.id
     /\ Reduced("createOneUser.fulfilled")
          => users'.list = users.list \o <<usersLast'.user>>
     /\ (\/ Reduced("updateOneUser.fulfilled")
         \/ Reduced("removeOneUser.fulfilled")
         \/ Reduced("createOneUser.fulfilled"))
          => /\ users'.currentUser = users.currentUser
             /\ users'.loading = users.loading
             /\ users'.error = users.error
             /\ users'.message = users.message]_usersVars

\* C37 witness: an update has replaced the first of two entries of one id and
\* left the second, while a user is selected and the slice carries the
\* error and message of an earlier failure
C37_Witness ==
  /\ usersLast.type = "updateOneUser.fulfilled"
  /\ Len(users.list) = 3
  /\ users.list[1] = usersLast.user
  /\ users.list[2].id = usersLast.user.id
  /\ users.list[2] # usersLast.user
  /\ users.list[3].id # usersLast.user.id
  /\ users.currentUser # NoUser
  /\ users.error
  /\ users.message = "Network Error"


====
